---- MODULE Spec2Model ----
(***************************************************************************)
(* A model of nalgebra's symmetric eigensolver                             *)
(* (src/src/linalg/symmetric_eigen.rs): the Wilkinson shift, the           *)
(* subproblem delimiter, the implicit-shift iteration engine of            *)
(* do_decompose and recompose.                                             *)
(*                                                                         *)
(* Scalars.  The code is generic over a real field and runs on floats.     *)
(* The model keeps a scalar as an integer number of grid units 1/Scale     *)
(* (Scale = 2^ScaleBits): the real x is the integer x*Scale.  Every        *)
(* multiplication, division and square root of the code rounds its exact   *)
(* result to the grid, as a float operation rounds to the nearest float;   *)
(* addition, subtraction, negation, abs and comparison are exact.  One     *)
(* grid unit plays the part of the machine epsilon.  Indices are 0-based   *)
(* as in the code: a vector of length n is a function on 0..n-1.           *)
(***************************************************************************)
EXTENDS Integers, Sequences, FiniteSets, TLC

VARIABLES
    m,          \* the matrix handed to the solver (shape and lower triangle)
    eps,        \* the caller's tolerance
    max_niter,  \* the caller's iteration budget (0: unbounded)
    run,        \* do_decompose(m, true, eps, max_niter): locals and position
    vals,       \* do_decompose(m, false, eps, max_niter), run side by side
    args,       \* the arguments of a call of a pure function
    ret         \* what that call returned (NoRet before the call)

vars == <<m, eps, max_niter, run, vals, args, ret>>

(***************************************************************************)
(* Bounds of the model.                                                    *)
(***************************************************************************)
ScaleBits == 10       \* grid resolution: Scale = 2^ScaleBits units per 1.0
MaxDim == 3           \* largest matrix dimension handed to the solver
MaxVal == 2           \* input entries are k * Scale/2 with |k| <= MaxVal
TinyOff == 3          \* a sub-diagonal input entry of a few grid units
EpsSmall == 4         \* a caller tolerance of a few grid units
MaxMaxNiter == 2      \* largest iteration budget a caller passes
NiterCap == 6         \* outer iterations explored when the budget is unbounded
ShiftMax == 6         \* wilkinson_shift inputs are k * Scale/4 with |k| <= ShiftMax
DelimitDim == 4       \* length of diag in the calls of delimit_subproblem
RecomposeDim == 2     \* largest dimension in the calls of recompose
ShiftTol == 2         \* grid units within which a computed shift is a root
RoundTol == 16        \* grid units granted to the rounding of a reconstruction

Scale == 2 ^ ScaleBits
Half == Scale \div 2          \* crate::convert(0.5)
Two == 2 * Scale              \* crate::convert(2.0)
Infinity == 64 * Scale * Scale  \* what a division by zero yields

(***************************************************************************)
(* Scalar operations of the field (alga's RealField on the grid).          *)
(***************************************************************************)
Abs(x) == IF x < 0 THEN -x ELSE x

\* a / b rounded to the nearest integer, halves away from zero
RDiv(a, b) ==
    LET q == (Abs(a) + (Abs(b) \div 2)) \div Abs(b)
    IN  IF (a >= 0) = (b > 0) THEN q ELSE -q

\* a product; the quotient of a division by zero stays what it is
FMul(a, b) ==
    IF Abs(a) >= Infinity \/ Abs(b) >= Infinity THEN Infinity
    ELSE RDiv(a * b, Scale)

FDiv(a, b) ==
    IF b = 0 THEN (IF a < 0 THEN -Infinity ELSE Infinity)
    ELSE RDiv(a * Scale, b)

RECURSIVE ISqrtBetween(_, _, _)
\* the largest r in lo..hi with r*r <= n (lo*lo <= n < (hi+1)*(hi+1))
ISqrtBetween(n, lo, hi) ==
    IF lo = hi THEN lo
    ELSE LET mid == (lo + hi + 1) \div 2
         IN  IF mid * mid <= n THEN ISqrtBetween(n, mid, hi)
             ELSE ISqrtBetween(n, lo, mid - 1)

ISqrt(n) == ISqrtBetween(n, 0, 8 * Scale)

FSqrt(x) == ISqrt(x * Scale)

norm1(x) == Abs(x)

is_zero(x) == x = 0

\* a signum that is zero at zero
signum_zero_is_zero(x) == IF x > 0 THEN Scale ELSE IF x < 0 THEN -Scale ELSE 0

\* signum of a float: 1.0 for a positive number and for +0.0, -1.0 otherwise;
\* the difference of two equal floats is +0.0
signum(x) == IF x >= 0 THEN Scale ELSE -Scale

(***************************************************************************)
(* wilkinson_shift                                                         *)
(***************************************************************************)
\* the denominator of the division at line 301
shift_denominator(tmm, tnn, tmn) ==
    LET sq_tmn == FMul(tmn, tmn)
        d == FMul(tmm - tnn, Half)
    IN  d + FMul(signum(d), FSqrt(FMul(d, d) + sq_tmn))

\* the shift taken from the other diagonal entry: the eigenvalue closest to tmm
wilkinson_shift_from_tmm(tmm, tnn, tmn) ==
    LET sq_tmn == FMul(tmn, tmn)
    IN  IF ~is_zero(sq_tmn)
        THEN tmm + FDiv(sq_tmn, shift_denominator(tmm, tnn, tmn))
        ELSE tnn

wilkinson_shift(tmm, tnn, tmn) ==
    LET sq_tmn == FMul(tmn, tmn)
    IN  IF ~is_zero(sq_tmn)
        THEN tnn - FDiv(sq_tmn, shift_denominator(tmm, tnn, tmn))
        ELSE tnn

(***************************************************************************)
(* Collaborators of the solver whose code is not among the files modelled: *)
(* the Givens rotation primitive, the closed-form 2x2 eigenvalues and the  *)
(* symmetric tridiagonalization.  They follow the interfaces the           *)
(* specification gives for them.                                           *)
(***************************************************************************)
NoRot == [some |-> FALSE, c |-> 0, s |-> 0, norm |-> 0]

\* sqrt(x*x + y*y)
Hypot(x, y) == ISqrt(x * x + y * y)

RECURSIVE Normalized(_, _)
\* (x, y) doubled until its larger component is at least 1.0: the direction
\* of the vector with the relative precision a float keeps at any magnitude
Normalized(x, y) ==
    IF (x = 0 /\ y = 0) \/ Abs(x) >= Scale \/ Abs(y) >= Scale THEN <<x, y>>
    ELSE Normalized(2 * x, 2 * y)

\* the sign of the polar decomposition of a real: +1 for zero
sign0(x) == IF x < 0 THEN -1 ELSE 1

\* GivensRotation::cancel_y(v): the rotation that zeros v.y, with the norm it
\* leaves in v.x; none when v.y is zero
cancel_y(v) ==
    IF ~is_zero(v.y)
    THEN LET n == Normalized(v.x, v.y)
             denom == Hypot(n[1], n[2])
         IN  [some |-> TRUE,
              c |-> FDiv(Abs(n[1]), denom),
              s |-> FDiv(-n[2], sign0(v.x) * denom),
              norm |-> sign0(v.x) * Hypot(v.x, v.y)]
    ELSE NoRot

\* GivensRotation::try_new(c, s, eps): the rotation of cosine c/|(c,s)| and
\* sine s/|(c,s)|; none when the norm of (c, s) does not exceed eps
try_new(c, s, e) ==
    LET denom == Hypot(c, s)
        n == Normalized(c, s)
        ndenom == Hypot(n[1], n[2])
    IN  IF denom > e
        THEN [some |-> TRUE,
              c |-> FDiv(Abs(n[1]), ndenom),
              s |-> FDiv(n[2], sign0(c) * ndenom),
              norm |-> sign0(c) * denom]
        ELSE NoRot

\* rot.inverse()
inverse(rot) == [rot EXCEPT !.s = -rot.s]

\* rot.rotate_rows(&mut q.fixed_columns_mut::<U2>(i)): q = q * rot on the
\* columns i, i+1
rotate_rows(rot, q, i) ==
    [j \in DOMAIN q |->
        LET a == q[j][i]
            b == q[j][i + 1]
        IN  [q[j] EXCEPT ![i] = FMul(a, rot.c) + FMul(rot.s, b),
                         ![i + 1] = FMul(-rot.s, a) + FMul(b, rot.c)]]

NoEig == [some |-> FALSE, x |-> 0, y |-> 0]

\* Matrix2::new(h00, h01, h10, h11).eigenvalues(): half the trace plus and
\* minus the root of the discriminant; none when the discriminant is negative
eigenvalues(h00, h01, h10, h11) ==
    LET val == FMul(h00 - h11, Half)
        discr == FMul(h10, h01) + FMul(val, val)
        half_tra == FMul(h00 + h11, Half)
    IN  IF discr < 0 THEN NoEig
        ELSE [some |-> TRUE, x |-> half_tra + FSqrt(discr),
                             y |-> half_tra - FSqrt(discr)]

Identity(dim) == [i \in 0 .. dim - 1 |-> [j \in 0 .. dim - 1 |-> IF i = j THEN Scale ELSE 0]]

NoQ == [some |-> FALSE, mat |-> <<>>]

\* SymmetricTridiagonal::new(m).unpack() / .unpack_tridiagonal(): the solver
\* is handed matrices that are tridiagonal already, with a sub-diagonal that
\* is not negative, and those are their own reduction, under the identity
SymmetricTridiagonal(mm, eigenvectors) ==
    [q |-> IF eigenvectors THEN [some |-> TRUE, mat |-> Identity(mm.nrows)] ELSE NoQ,
     diag |-> mm.diag,
     off_diag |-> mm.off]

(***************************************************************************)
(* delimit_subproblem                                                      *)
(***************************************************************************)
\* the test with a strict comparison
negligible_strictly(diag, off_diag, k, e) ==
    norm1(off_diag[k]) < FMul(e, norm1(diag[k + 1]) + norm1(diag[k]))

\* lines 249 and 263: off_diag[k] is at or below the relative threshold
negligible(diag, off_diag, k, e) ==
    norm1(off_diag[k]) <= FMul(e, norm1(diag[k + 1]) + norm1(diag[k]))

RECURSIVE block_end(_, _, _, _)
\* the first loop: n after it (lines 243-253)
block_end(diag, off_diag, n, e) ==
    IF n > 0
    THEN IF ~negligible(diag, off_diag, n - 1, e) THEN n
         ELSE block_end(diag, off_diag, n - 1, e)
    ELSE n

RECURSIVE block_start(_, _, _, _)
\* the second loop: new_start after it (lines 259-271)
block_start(diag, off_diag, new_start, e) ==
    IF new_start > 0
    THEN IF is_zero(off_diag[new_start - 1])
            \/ negligible(diag, off_diag, new_start - 1, e)
         THEN new_start
         ELSE block_start(diag, off_diag, new_start - 1, e)
    ELSE new_start

\* no write at all
zeroed_never(off_diag, new_start) == off_diag

\* the write of the second loop (line 266): the entry the loop stopped at
zeroed_before_start(off_diag, new_start) ==
    IF new_start > 0 THEN [off_diag EXCEPT ![new_start - 1] = 0] ELSE off_diag

delimit_subproblem(diag, off_diag, end, e) ==
    LET n == block_end(diag, off_diag, end, e)
    IN  IF n = 0 THEN [start |-> 0, end |-> 0, off_diag |-> off_diag]
        ELSE LET new_start == block_start(diag, off_diag, n - 1, e)
             IN  [start |-> new_start, end |-> n,
                  off_diag |-> zeroed_before_start(off_diag, new_start)]

(***************************************************************************)
(* do_decompose: its locals, and where it stands (pc):                     *)
(*   "call"       entered, nothing done yet                                *)
(*   "loop"       at the head of the while loop (line 141)                 *)
(*   "sweep"      at the head of the for loop of a sweep (line 153)        *)
(*   "redelimit"  after the block's step, before line 217                  *)
(*   "some" / "none" / "panic"   returned Some, returned None, panicked    *)
(***************************************************************************)
NoVec == [k \in {} |-> 0]

Called(eigenvectors) ==
    [pc |-> "call", eigenvectors |-> eigenvectors, dim |-> 0, m_amax |-> 0,
     q |-> NoQ, diag |-> NoVec, off_diag |-> NoVec,
     start |-> 0, end |-> 0, niter |-> 0, i |-> 0, v |-> [x |-> 0, y |-> 0],
     why |-> ""]

NoRun == [pc |-> "idle"]

is_square(mm) == mm.nrows = mm.ncols

MaxOf(S) == CHOOSE x \in S : \A y \in S : y <= x

\* m.camax(): the largest absolute value of an entry, zero for no entry
camax(mm) ==
    MaxOf({0} \cup {norm1(mm.diag[k]) : k \in DOMAIN mm.diag}
              \cup {norm1(mm.off[k]) : k \in DOMAIN mm.off})

\* m.unscale_mut(m_amax)
unscale_mut(mm, m_amax) ==
    [mm EXCEPT !.diag = [k \in DOMAIN mm.diag |-> FDiv(mm.diag[k], m_amax)],
               !.off = [k \in DOMAIN mm.off |-> FDiv(mm.off[k], m_amax)]]

\* diag.scale_mut(m_amax)
scale_mut(diag, m_amax) == [k \in DOMAIN diag |-> FMul(diag[k], m_amax)]

Panic(r, why) == [r EXCEPT !.pc = "panic", !.why = why]

\* the entry with the matrix unscaled whatever m_amax is
enter_unscaling_by_zero(r, mm, e) ==
    IF ~is_square(mm)
    THEN Panic(r, "Unable to compute the eigendecomposition of a non-square matrix.")
    ELSE
    LET dim == mm.nrows
        m_amax == camax(mm)
        scaled == unscale_mut(mm, m_amax)
        res == SymmetricTridiagonal(scaled, r.eigenvectors)
        r1 == [r EXCEPT !.dim = dim, !.m_amax = m_amax, !.q = res.q,
                        !.diag = res.diag, !.off_diag = res.off_diag]
    IN  IF dim = 1
        THEN [r1 EXCEPT !.pc = "some", !.diag = scale_mut(res.diag, m_amax)]
        ELSE IF dim < 1
        THEN Panic(r1, "attempt to subtract with overflow")
        ELSE LET sub == delimit_subproblem(res.diag, res.off_diag, dim - 1, e)
             IN  [r1 EXCEPT !.pc = "loop", !.niter = 0, !.off_diag = sub.off_diag,
                            !.start = sub.start, !.end = sub.end]

\* lines 108-139: the assertion, the scaling, the tridiagonalization, the
\* 1x1 return and the first call of the delimiter
enter(r, mm, e) ==
    IF ~is_square(mm)
    THEN Panic(r, "Unable to compute the eigendecomposition of a non-square matrix.")
    ELSE
    LET dim == mm.nrows
        m_amax == camax(mm)
        scaled == IF ~is_zero(m_amax) THEN unscale_mut(mm, m_amax) ELSE mm
        res == SymmetricTridiagonal(scaled, r.eigenvectors)
        r1 == [r EXCEPT !.dim = dim, !.m_amax = m_amax, !.q = res.q,
                        !.diag = res.diag, !.off_diag = res.off_diag]
    IN  IF dim = 1
        THEN [r1 EXCEPT !.pc = "some", !.diag = scale_mut(res.diag, m_amax)]
        ELSE IF dim < 1
        THEN Panic(r1, "attempt to subtract with overflow")   \* dim - 1
        ELSE LET sub == delimit_subproblem(res.diag, res.off_diag, dim - 1, e)
             IN  [r1 EXCEPT !.pc = "loop", !.niter = 0, !.off_diag = sub.off_diag,
                            !.start = sub.start, !.end = sub.end]

subdim(r) == r.end - r.start + 1

\* lines 145-151 and the start of the for loop
sweep_begin(r) ==
    LET mI == r.end - 1
        n == r.end
    IN  [r EXCEPT !.pc = "sweep", !.i = r.start,
                  !.v = [x |-> r.diag[r.start]
                               - wilkinson_shift(r.diag[mI], r.diag[n], r.off_diag[mI]),
                         y |-> r.off_diag[r.start]]]

\* lines 154-186: one pass of the for loop, the rotation found
sweep_step(r) ==
    LET i == r.i
        j == r.i + 1
        n == r.end
        rot == cancel_y(r.v)
        off1 == IF i > r.start THEN [r.off_diag EXCEPT ![i - 1] = rot.norm]
                ELSE r.off_diag
        mii == r.diag[i]
        mjj == r.diag[j]
        mij == off1[i]
        cc == FMul(rot.c, rot.c)
        ss == FMul(rot.s, rot.s)
        cs == FMul(rot.c, rot.s)
        b == FMul(FMul(cs, Two), mij)
        diag1 == [r.diag EXCEPT ![i] = (FMul(cc, mii) + FMul(ss, mjj)) - b,
                                ![j] = (FMul(ss, mii) + FMul(cc, mjj)) + b]
        off2 == [off1 EXCEPT ![i] = FMul(cs, mii - mjj) + FMul(mij, cc - ss)]
        v1 == IF i # n - 1
              THEN [x |-> off2[i], y |-> FMul(-rot.s, off2[i + 1])]
              ELSE r.v
        off3 == IF i # n - 1 THEN [off2 EXCEPT ![i + 1] = FMul(@, rot.c)]
                ELSE off2
        q1 == IF r.q.some THEN [r.q EXCEPT !.mat = rotate_rows(inverse(rot), @, i)]
              ELSE r.q
    IN  [r EXCEPT !.i = i + 1, !.v = v1, !.diag = diag1, !.off_diag = off3,
                  !.q = q1]

\* lines 192-194: after the for loop, by its end or by the break
sweep_end(r, e) ==
    LET mI == r.end - 1
        n == r.end
    IN  IF norm1(r.off_diag[mI]) <= FMul(e, norm1(r.diag[mI]) + norm1(r.diag[n]))
        THEN [r EXCEPT !.pc = "redelimit", !.end = r.end - 1]
        ELSE [r EXCEPT !.pc = "redelimit"]

\* the 2x2 step with the eigenvalues written only where Q is
two_by_two_writing_with_q(r, e) ==
    LET start == r.start
        eigvals == eigenvalues(r.diag[start], r.off_diag[start],
                               r.off_diag[start], r.diag[start + 1])
        basis == [x |-> eigvals.x - r.diag[start + 1], y |-> r.off_diag[start]]
        diag1 == [r.diag EXCEPT ![start + 0] = eigvals.x, ![start + 1] = eigvals.y]
        rot == try_new(basis.x, basis.y, e)
    IN  IF ~eigvals.some
        THEN Panic(r, "unwrap on a None value")
        ELSE IF r.q.some
        THEN [r EXCEPT !.pc = "redelimit", !.diag = diag1,
                       !.q = IF rot.some
                             THEN [r.q EXCEPT !.mat = rotate_rows(rot, @, start)]
                             ELSE r.q,
                       !.end = r.end - 1]
        ELSE [r EXCEPT !.pc = "redelimit", !.end = r.end - 1]

\* the 2x2 step that leaves end where it is
two_by_two_keeping_end(r, e) ==
    LET start == r.start
        eigvals == eigenvalues(r.diag[start], r.off_diag[start],
                               r.off_diag[start], r.diag[start + 1])
        basis == [x |-> eigvals.x - r.diag[start + 1], y |-> r.off_diag[start]]
        diag1 == [r.diag EXCEPT ![start + 0] = eigvals.x, ![start + 1] = eigvals.y]
        rot == try_new(basis.x, basis.y, e)
        q1 == IF r.q.some /\ rot.some
              THEN [r.q EXCEPT !.mat = rotate_rows(rot, @, start)]
              ELSE r.q
    IN  IF ~eigvals.some
        THEN Panic(r, "unwrap on a None value")
        ELSE [r EXCEPT !.pc = "redelimit", !.diag = diag1, !.q = q1]

\* the 2x2 step taken on the rows 0 and 1 whatever the block's start is
two_by_two_on_the_first_rows(r, e) ==
    LET start == 0
        eigvals == eigenvalues(r.diag[start], r.off_diag[start],
                               r.off_diag[start], r.diag[start + 1])
        basis == [x |-> eigvals.x - r.diag[start + 1], y |-> r.off_diag[start]]
        diag1 == [r.diag EXCEPT ![start + 0] = eigvals.x, ![start + 1] = eigvals.y]
        rot == try_new(basis.x, basis.y, e)
        q1 == IF r.q.some /\ rot.some
              THEN [r.q EXCEPT !.mat = rotate_rows(rot, @, start)]
              ELSE r.q
    IN  IF ~eigvals.some
        THEN Panic(r, "unwrap on a None value")
        ELSE [r EXCEPT !.pc = "redelimit", !.diag = diag1, !.q = q1,
                       !.end = r.end - 1]

\* the 2x2 step with the eigenvalues written only when the rotation exists
two_by_two_writing_with_rot(r, e) ==
    LET start == r.start
        eigvals == eigenvalues(r.diag[start], r.off_diag[start],
                               r.off_diag[start], r.diag[start + 1])
        basis == [x |-> eigvals.x - r.diag[start + 1], y |-> r.off_diag[start]]
        diag1 == [r.diag EXCEPT ![start + 0] = eigvals.x, ![start + 1] = eigvals.y]
        rot == try_new(basis.x, basis.y, e)
        q1 == IF r.q.some /\ rot.some
              THEN [r.q EXCEPT !.mat = rotate_rows(rot, @, start)]
              ELSE r.q
    IN  IF ~eigvals.some
        THEN Panic(r, "unwrap on a None value")
        ELSE [r EXCEPT !.pc = "redelimit",
                       !.diag = IF rot.some THEN diag1 ELSE r.diag,
                       !.q = q1, !.end = r.end - 1]

\* lines 196-213: the 2x2 block in closed form
two_by_two(r, e) ==
    LET start == r.start
        eigvals == eigenvalues(r.diag[start], r.off_diag[start],
                               r.off_diag[start], r.diag[start + 1])
        basis == [x |-> eigvals.x - r.diag[start + 1], y |-> r.off_diag[start]]
        diag1 == [r.diag EXCEPT ![start + 0] = eigvals.x, ![start + 1] = eigvals.y]
        rot == try_new(basis.x, basis.y, e)
        q1 == IF r.q.some /\ rot.some
              THEN [r.q EXCEPT !.mat = rotate_rows(rot, @, start)]
              ELSE r.q
    IN  IF ~eigvals.some
        THEN Panic(r, "unwrap on a None value")
        ELSE [r EXCEPT !.pc = "redelimit", !.diag = diag1, !.q = q1,
                       !.end = r.end - 1]

\* line 223: the test that gives up
gives_up(niter, mn) == niter = mn

\* lines 217-225: the delimiter again, the iteration counted, the budget
redelimit(r, e, mn) ==
    LET sub == delimit_subproblem(r.diag, r.off_diag, r.end, e)
        niter == r.niter + 1
    IN  [r EXCEPT !.pc = IF gives_up(niter, mn) THEN "none" ELSE "loop",
                  !.off_diag = sub.off_diag, !.start = sub.start,
                  !.end = sub.end, !.niter = niter]

\* the return without the diagonal scaled back
return_some_unscaled(r) == [r EXCEPT !.pc = "some"]

\* lines 228-230: the loop left, the diagonal scaled back
return_some(r) == [r EXCEPT !.pc = "some", !.diag = scale_mut(r.diag, r.m_amax)]

(***************************************************************************)
(* The solver as a state machine.  The caller hands a matrix, eps and      *)
(* max_niter; `run` is the call that accumulates eigenvectors (try_new),   *)
(* `vals` the call on the same arguments that does not                     *)
(* (symmetric_eigenvalues's), taken through the same code in step.         *)
(***************************************************************************)
default_epsilon == 1      \* N::RealField::default_epsilon(): one grid unit

DiagVals == {k * Half : k \in -MaxVal .. MaxVal}
OffVals == {0, TinyOff} \cup {k * Half : k \in 1 .. MaxVal}
EpsVals == {default_epsilon, EpsSmall}

SquareMatrices(dim) ==
    {[nrows |-> dim, ncols |-> dim, diag |-> d, off |-> o] :
        d \in [0 .. dim - 1 -> DiagVals], o \in [0 .. dim - 2 -> OffVals]}

NonSquareMatrices ==
    {[nrows |-> nr, ncols |-> nc, diag |-> NoVec, off |-> NoVec] :
        <<nr, nc>> \in {s \in (0 .. MaxDim) \X (0 .. MaxDim) : s[1] # s[2]}}

NoArgs == [fn |-> "none"]
NoRet == [fn |-> "none"]

Init ==
    /\ \/ \E dim \in 0 .. MaxDim : m \in SquareMatrices(dim)
       \/ m \in NonSquareMatrices
    /\ eps \in EpsVals
    /\ max_niter \in 0 .. MaxMaxNiter
    /\ run = Called(TRUE)
    /\ vals = Called(FALSE)
    /\ args = NoArgs
    /\ ret = NoRet

\* the step of do_decompose from where r stands
step(r, mm, e, mn) ==
    CASE r.pc = "call" -> enter(r, mm, e)
      [] r.pc = "loop" /\ r.end = r.start -> return_some(r)
      [] r.pc = "loop" /\ r.end # r.start /\ subdim(r) > 2 -> sweep_begin(r)
      [] r.pc = "loop" /\ r.end # r.start /\ subdim(r) = 2 -> two_by_two(r, e)
      [] r.pc = "sweep" /\ r.i < r.end /\ cancel_y(r.v).some -> sweep_step(r)
      [] r.pc = "sweep" /\ ~(r.i < r.end /\ cancel_y(r.v).some) -> sweep_end(r, e)
      [] r.pc = "redelimit" -> redelimit(r, e, mn)
      [] OTHER -> r

Others == <<m, eps, max_niter, args, ret>>

Decompose ==
    /\ run.pc = "call"
    /\ run' = enter(run, m, eps)
    /\ vals' = step(vals, m, eps, max_niter)
    /\ UNCHANGED Others

Converged ==
    /\ run.pc = "loop" /\ run.end = run.start
    /\ run' = return_some(run)
    /\ vals' = step(vals, m, eps, max_niter)
    /\ UNCHANGED Others

SweepBegin ==
    /\ run.pc = "loop" /\ run.end # run.start /\ subdim(run) > 2
    /\ run.niter < NiterCap
    /\ run' = sweep_begin(run)
    /\ vals' = step(vals, m, eps, max_niter)
    /\ UNCHANGED Others

SweepStep ==
    /\ run.pc = "sweep" /\ run.i < run.end /\ cancel_y(run.v).some
    /\ run' = sweep_step(run)
    /\ vals' = step(vals, m, eps, max_niter)
    /\ UNCHANGED Others

SweepBreak ==
    /\ run.pc = "sweep" /\ run.i < run.end /\ ~cancel_y(run.v).some
    /\ run' = sweep_end(run, eps)
    /\ vals' = step(vals, m, eps, max_niter)
    /\ UNCHANGED Others

SweepDone ==
    /\ run.pc = "sweep" /\ ~(run.i < run.end)
    /\ run' = sweep_end(run, eps)
    /\ vals' = step(vals, m, eps, max_niter)
    /\ UNCHANGED Others

TwoByTwo ==
    /\ run.pc = "loop" /\ run.end # run.start /\ subdim(run) = 2
    /\ run.niter < NiterCap
    /\ run' = two_by_two(run, eps)
    /\ vals' = step(vals, m, eps, max_niter)
    /\ UNCHANGED Others

Redelimit ==
    /\ run.pc = "redelimit"
    /\ run' = redelimit(run, eps, max_niter)
    /\ vals' = step(vals, m, eps, max_niter)
    /\ UNCHANGED Others

Next ==
    \/ Decompose
    \/ Converged
    \/ SweepBegin
    \/ SweepStep
    \/ SweepBreak
    \/ SweepDone
    \/ TwoByTwo
    \/ Redelimit

Spec == Init /\ [][Next]_vars

(***************************************************************************)
(* recompose                                                               *)
(***************************************************************************)
RECURSIVE SumTo(_, _)
\* f[0] + ... + f[n-1]
SumTo(f, n) == IF n = 0 THEN 0 ELSE SumTo(f, n - 1) + f[n - 1]

\* u_t.column_mut(i).scale_mut(val) for every column i (lines 281-284)
scaled_columns(mat, eigenvalues_) ==
    [i \in DOMAIN mat |-> [k \in DOMAIN mat[i] |-> FMul(mat[i][k], eigenvalues_[k])]]

\* u_t.adjoint_mut(): the transpose (the conjugate of a real is itself)
adjoint(mat) == [i \in DOMAIN mat |-> [k \in DOMAIN mat |-> mat[k][i]]]

\* &a * b
MatMul(a, b) ==
    [i \in DOMAIN a |-> [j \in DOMAIN a |->
        SumTo([k \in DOMAIN a |-> FMul(a[i][k], b[k][j])], Cardinality(DOMAIN a))]]

\* the product without the adjoint
recompose_without_adjoint(self) ==
    MatMul(self.eigenvectors, scaled_columns(self.eigenvectors, self.eigenvalues))

\* lines 279-287
recompose(self) ==
    LET u_t == adjoint(scaled_columns(self.eigenvectors, self.eigenvalues))
    IN  MatMul(self.eigenvectors, u_t)

(***************************************************************************)
(* The pure functions called on their own: the state is the arguments and, *)
(* after the call, what it returned.  No solver runs.                      *)
(***************************************************************************)
NoMatrix == [nrows |-> 0, ncols |-> 0, diag |-> NoVec, off |-> NoVec]

NoSolver ==
    /\ m = NoMatrix
    /\ eps = 0
    /\ max_niter = 0
    /\ run = NoRun
    /\ vals = NoRun

Solver == <<m, eps, max_niter, run, vals>>

\* wilkinson_shift(tmm, tnn, tmn)
ShiftVals == {k * (Scale \div 4) : k \in -ShiftMax .. ShiftMax}

InitShift ==
    /\ NoSolver
    /\ \E a \in ShiftVals, b \in ShiftVals, c \in ShiftVals :
          args = [fn |-> "wilkinson_shift", tmm |-> a, tnn |-> b, tmn |-> c]
    /\ ret = NoRet

CallShift ==
    /\ args.fn = "wilkinson_shift" /\ ret = NoRet
    /\ ret' = [fn |-> "wilkinson_shift",
               shift |-> wilkinson_shift(args.tmm, args.tnn, args.tmn),
               divides |-> ~is_zero(FMul(args.tmn, args.tmn)),
               denominator |-> shift_denominator(args.tmm, args.tnn, args.tmn)]
    /\ UNCHANGED <<args, Solver>>

SpecShift == InitShift /\ [][CallShift]_vars

\* delimit_subproblem(diag, off_diag, end, eps)
DelimitDiagVals == {-Scale, 0, Half}
DelimitOffVals == {0, TinyOff, EpsSmall, -(TinyOff + 2), Scale}
DelimitEpsVals == {0, EpsSmall}

InitDelimit ==
    /\ NoSolver
    /\ \E d \in [0 .. DelimitDim - 1 -> DelimitDiagVals],
          o \in [0 .. DelimitDim - 2 -> DelimitOffVals],
          n \in 0 .. DelimitDim - 1,
          e \in DelimitEpsVals :
            args = [fn |-> "delimit_subproblem", diag |-> d, off_diag |-> o,
                    end |-> n, eps |-> e]
    /\ ret = NoRet

CallDelimit ==
    /\ args.fn = "delimit_subproblem" /\ ret = NoRet
    /\ LET sub == delimit_subproblem(args.diag, args.off_diag, args.end, args.eps)
       IN  ret' = [fn |-> "delimit_subproblem", start |-> sub.start,
                   end |-> sub.end, off_diag |-> sub.off_diag]
    /\ UNCHANGED <<args, Solver>>

SpecDelimit == InitDelimit /\ [][CallDelimit]_vars

\* self.recompose(), self any pair of a matrix and a vector
RecomposeVals == {-Half, 0, Half}

InitRecompose ==
    /\ NoSolver
    /\ \E dim \in 1 .. RecomposeDim :
          \E q \in [0 .. dim - 1 -> [0 .. dim - 1 -> RecomposeVals]],
             l \in [0 .. dim - 1 -> RecomposeVals] :
            args = [fn |-> "recompose",
                    self |-> [eigenvectors |-> q, eigenvalues |-> l]]
    /\ ret = NoRet

CallRecompose ==
    /\ args.fn = "recompose" /\ ret = NoRet
    /\ ret' = [fn |-> "recompose", self |-> args.self, out |-> recompose(args.self)]
    /\ UNCHANGED <<args, Solver>>

SpecRecompose == InitRecompose /\ [][CallRecompose]_vars

(***************************************************************************)
(* src/src/linalg/convolution.rs.  A vector is a function on 0..len-1, a   *)
(* matrix a function of the row to a function of the column.  A call       *)
(* returns what it computed or panics: every index and every subtraction   *)
(* of unsigned integers of the code is looked at.                          *)
(***************************************************************************)
Len0(f) == Cardinality(DOMAIN f)

Min(a, b) == IF a < b THEN a ELSE b

ConvPanic(why) == [panic |-> TRUE, why |-> why, conv |-> NoVec]

ConvSome(conv) == [panic |-> FALSE, why |-> "", conv |-> conv]

\* one pass whose loop leaves out the test i - u < ker
full_entry_unfiltered(self, kernel, i) ==
    LET vec == Len0(self)
        ker == Len0(kernel)
        u_i == IF i > vec THEN i - ker ELSE 0
        u_f == Min(i, vec - 1)
        used == u_i .. u_f
        bad == \E u \in used : u \notin DOMAIN self \/ (i - u) \notin DOMAIN kernel
    IN  IF bad THEN [panic |-> TRUE, val |-> 0]
        ELSE [panic |-> FALSE,
              val |-> SumTo([u \in 0 .. vec - 1 |->
                                IF u \in used THEN FMul(self[u], kernel[i - u]) ELSE 0],
                            vec)]

\* lines 42-53: one pass of the loop of convolve_full, the entry conv[i]
full_entry(self, kernel, i) ==
    LET vec == Len0(self)
        ker == Len0(kernel)
        u_i == IF i > vec THEN i - ker ELSE 0
        u_f == Min(i, vec - 1)
        visited == IF u_i = u_f THEN {u_i} ELSE u_i .. u_f
        used == IF u_i = u_f THEN {u_i} ELSE {u \in u_i .. u_f : i - u < ker}
        bad == \/ u_i < 0
               \/ \E u \in visited : i - u < 0
               \/ \E u \in used : u \notin DOMAIN self \/ (i - u) \notin DOMAIN kernel
    IN  IF bad THEN [panic |-> TRUE, val |-> 0]
        ELSE [panic |-> FALSE,
              val |-> SumTo([u \in 0 .. vec - 1 |->
                                IF u \in used THEN FMul(self[u], kernel[i - u]) ELSE 0],
                            vec)]

\* lines 31-55
convolve_full(self, kernel) ==
    LET vec == Len0(self)
        ker == Len0(kernel)
    IN  IF ker = 0 \/ ker > vec
        THEN ConvPanic("convolve_full expects self.len() >= kernel.len() > 0")
        ELSE LET pass == [i \in 0 .. vec + ker - 2 |-> full_entry(self, kernel, i)]
             IN  IF \E i \in DOMAIN pass : pass[i].panic
                 THEN ConvPanic("index out of bounds")
                 ELSE ConvSome([i \in DOMAIN pass |-> pass[i].val])

\* lines 109-129
convolve_same(self, kernel) ==
    LET vec == Len0(self)
        ker == Len0(kernel)
    IN  IF ker = 0 \/ ker > vec
        THEN ConvPanic("convolve_same expects self.len() >= kernel.len() > 0")
        ELSE ConvSome([i \in 0 .. vec - 1 |->
                SumTo([j \in 0 .. ker - 1 |->
                          LET val == IF i + j < 1 \/ i + j >= vec + 1 THEN 0
                                     ELSE self[i + j - 1]
                          IN  FMul(val, kernel[ker - j - 1])],
                      ker)])

\* DMatrix::from_element(nrows, ncols, elem)
from_element(nrows, ncols, elem) ==
    [nrows |-> nrows, ncols |-> ncols,
     data |-> [r \in 0 .. nrows - 1 |-> [c \in 0 .. ncols - 1 |-> elem]]]

\* the test of Matrix::index and Matrix::index_mut on a pair (row, column)
index_in_bounds(mat, r, c) == r < mat.nrows /\ c < mat.ncols

\* lines 175-191: one pass of the innermost loop of mat_convolve_full.  The
\* subtraction i + k_i - kernel_min is one of unsigned integers: a build with
\* overflow checks panics when it goes below zero, a build without them
\* wraps, and the cast to i32 of the wrapped value is the negative number.
mat_pass(self, kernel, overflow_checks, conv_shape, i, j, k_i, k_j) ==
    LET kernel_min == kernel.nrows \div 2
        i_matrix == i + k_i - kernel_min
        j_matrix == j + k_j - kernel_min
        is_i_in_range == i_matrix >= 0 /\ i_matrix < self.nrows
        is_j_in_range == j_matrix >= 0 /\ j_matrix < self.ncols
    IN  IF overflow_checks /\ (i + k_i < kernel_min \/ j + k_j < kernel_min)
        THEN [panic |-> TRUE, why |-> "attempt to subtract with overflow", val |-> 0]
        ELSE IF is_i_in_range /\ is_j_in_range /\ ~index_in_bounds(kernel, k_i, k_j)
        THEN [panic |-> TRUE, why |-> "Matrix index out of bounds.", val |-> 0]
        ELSE IF ~index_in_bounds(conv_shape, i, j)
        THEN [panic |-> TRUE, why |-> "Matrix index out of bounds.", val |-> 0]
        ELSE [panic |-> FALSE, why |-> "",
              val |-> IF is_i_in_range /\ is_j_in_range
                      THEN FMul(kernel.data[k_i][k_j], self.data[i_matrix][j_matrix])
                      ELSE 0]

\* lines 153-198.  The four loops are numbered in the order they run:
\* pass n is (i, j, k_i, k_j) with n = ((i * mat_cols + j) * kernel_size
\* + k_i) * kernel_size + k_j; the first pass that panics ends the call, and
\* the entry (i, j) keeps what the last pass on it assigned.
mat_convolve_full(self, kernel, overflow_checks) ==
    LET mat_rows == self.nrows
        mat_cols == self.ncols
        ker_rows == kernel.nrows
        ker_cols == kernel.ncols
    IN  IF ker_rows = 0 \/ ker_rows > mat_rows \/ ker_cols = 0 \/ ker_cols > mat_cols
        THEN ConvPanic("convolve_full expects self.nrows() >= kernel.nrows() > 0 and self.ncols() >= kernel.ncols() > 0")
        ELSE LET kernel_size == ker_rows
                 conv == from_element(mat_cols, mat_rows, 0)
                 passes == mat_rows * mat_cols * kernel_size * kernel_size
                 at(n) == mat_pass(self, kernel, overflow_checks, conv,
                                   n \div (mat_cols * kernel_size * kernel_size),
                                   (n \div (kernel_size * kernel_size)) % mat_cols,
                                   (n \div kernel_size) % kernel_size,
                                   n % kernel_size)
                 panics == {n \in 0 .. passes - 1 : at(n).panic}
                 last(i, j) == ((i * mat_cols + j) * kernel_size + kernel_size - 1)
                                   * kernel_size + kernel_size - 1
             IN  IF panics # {}
                 THEN ConvPanic(at(CHOOSE n \in panics : \A o \in panics : n <= o).why)
                 ELSE ConvSome([nrows |-> conv.nrows, ncols |-> conv.ncols,
                                data |-> [r \in 0 .. conv.nrows - 1 |->
                                            [c \in 0 .. conv.ncols - 1 |->
                                                IF r < mat_rows /\ c < mat_cols
                                                THEN at(last(r, c)).val
                                                ELSE 0]]])

\* the calls of the convolutions: vectors of at most MaxVecLen entries, the
\* kernel possibly empty or longer than the vector; matrices of at most
\* MaxMatDim rows and columns, the kernel possibly without rows or columns,
\* its entries told apart by their position
MaxVecLen == 3
MaxMatDim == 2
ConvVals == {Half, Scale}

KernelOf(rows, cols) ==
    [nrows |-> rows, ncols |-> cols,
     data |-> [a \in 0 .. rows - 1 |->
                [b \in 0 .. cols - 1 |-> (1 + a * (MaxMatDim + 1) + b) * Half]]]

NoConv == [panic |-> FALSE, why |-> "not called", conv |-> NoVec]

InitConvolution ==
    /\ NoSolver
    /\ \/ \E vec \in 1 .. MaxVecLen, ker \in 0 .. MaxVecLen + 1 :
            \E v \in [0 .. vec - 1 -> ConvVals], k \in [0 .. ker - 1 -> ConvVals] :
                args = [fn |-> "convolve", self |-> v, kernel |-> k,
                        overflow_checks |-> FALSE]
       \/ \E nr \in 1 .. MaxMatDim, nc \in 1 .. MaxMatDim,
             kr \in 0 .. MaxMatDim + 1, kc \in 0 .. MaxMatDim + 1 :
            \E d \in [0 .. nr - 1 -> [0 .. nc - 1 -> ConvVals]], oc \in BOOLEAN :
                args = [fn |-> "mat_convolve",
                        self |-> [nrows |-> nr, ncols |-> nc, data |-> d],
                        kernel |-> KernelOf(kr, kc), overflow_checks |-> oc]
    /\ ret = [fn |-> "convolution", full |-> NoConv, same |-> NoConv, mat |-> NoConv]

CallConvolveFull ==
    /\ args.fn = "convolve" /\ ret.full = NoConv
    /\ ret' = [ret EXCEPT !.full = convolve_full(args.self, args.kernel)]
    /\ UNCHANGED <<args, Solver>>

CallConvolveSame ==
    /\ args.fn = "convolve" /\ ret.same = NoConv
    /\ ret' = [ret EXCEPT !.same = convolve_same(args.self, args.kernel)]
    /\ UNCHANGED <<args, Solver>>

CallMatConvolveFull ==
    /\ args.fn = "mat_convolve" /\ ret.mat = NoConv
    /\ ret' = [ret EXCEPT !.mat = mat_convolve_full(args.self, args.kernel,
                                                    args.overflow_checks)]
    /\ UNCHANGED <<args, Solver>>

NextConvolution == CallConvolveFull \/ CallConvolveSame \/ CallMatConvolveFull

SpecConvolution == InitConvolution /\ [][NextConvolution]_vars

(***************************************************************************)
(* src/nalgebra-sparse/src/cs.rs.  A CsMatrix is a sparsity pattern (the   *)
(* offsets of the lanes, the minor indices of the stored entries, the      *)
(* minor dimension) and the array of the values; arrays and slices are     *)
(* functions on 0..len-1.  SparsityPattern is a collaborator: its offsets  *)
(* start at zero, do not decrease and end at the number of stored entries, *)
(* and the indices of a lane are sorted, distinct and below minor_dim.     *)
(***************************************************************************)
\* the slice f[from .. to]
Slice(f, from, to) == [k \in 0 .. to - from - 1 |-> f[from + k]]

\* a slice f[from .. to] panics unless from <= to <= f.len()
slice_in_bounds(f, from, to) == from <= to /\ to <= Len0(f)

\* SparsityPattern::major_dim
major_dim(pattern) == Len0(pattern.major_offsets) - 1

\* SparsityPattern::nnz
nnz(pattern) == Len0(pattern.minor_indices)

NoLane == [some |-> FALSE, minor_indices |-> NoVec]

\* SparsityPattern::get_lane: the indices between two consecutive offsets
pattern_get_lane(pattern, major_index) ==
    IF major_index \in DOMAIN pattern.major_offsets
        /\ major_index + 1 \in DOMAIN pattern.major_offsets
    THEN [some |-> TRUE,
          minor_indices |-> Slice(pattern.minor_indices,
                                  pattern.major_offsets[major_index],
                                  pattern.major_offsets[major_index + 1])]
    ELSE NoLane

\* lines 67-75: the assertion of from_pattern_and_values
from_pattern_and_values(pattern, values) ==
    IF nnz(pattern) = Len0(values)
    THEN [panic |-> FALSE, sparsity_pattern |-> pattern, values |-> values]
    ELSE [panic |-> TRUE, sparsity_pattern |-> pattern, values |-> NoVec]

\* lines 79-83
get_index_range(self, row_index) ==
    LET major_offsets == self.sparsity_pattern.major_offsets
    IN  IF row_index \in DOMAIN major_offsets /\ row_index + 1 \in DOMAIN major_offsets
        THEN [some |-> TRUE, start |-> major_offsets[row_index],
              end |-> major_offsets[row_index + 1]]
        ELSE [some |-> FALSE, start |-> 0, end |-> 0]

\* slice::binary_search on a sorted slice: Ok(index) or Err
RECURSIVE binary_search_between(_, _, _, _)
binary_search_between(slice, x, left, right) ==
    IF left >= right THEN [ok |-> FALSE, index |-> left]
    ELSE LET mid == left + (right - left) \div 2
         IN  IF slice[mid] < x THEN binary_search_between(slice, x, mid + 1, right)
             ELSE IF slice[mid] > x THEN binary_search_between(slice, x, left, mid)
             ELSE [ok |-> TRUE, index |-> mid]

binary_search(slice, x) == binary_search_between(slice, x, 0, Len0(slice))

EntryNone == [kind |-> "None", value |-> 0]
EntryZero == [kind |-> "Zero", value |-> 0]
EntryNonZero(v) == [kind |-> "NonZero", value |-> v]
EntryPanic == [kind |-> "panic", value |-> 0]

\* the lookup with the test of the minor dimension taken inclusive
get_entry_from_slices_inclusive(minor_dim_, minor_indices, values, global_minor_index) ==
    LET local_index == binary_search(minor_indices, global_minor_index)
    IN  IF local_index.ok
        THEN IF local_index.index \in DOMAIN values
             THEN EntryNonZero(values[local_index.index])
             ELSE EntryPanic
        ELSE IF global_minor_index <= minor_dim_ THEN EntryZero
        ELSE EntryNone

\* lines 210-223
get_entry_from_slices(minor_dim_, minor_indices, values, global_minor_index) ==
    LET local_index == binary_search(minor_indices, global_minor_index)
    IN  IF local_index.ok
        THEN IF local_index.index \in DOMAIN values
             THEN EntryNonZero(values[local_index.index])
             ELSE EntryPanic
        ELSE IF global_minor_index < minor_dim_ THEN EntryZero
        ELSE EntryNone

\* lines 225-238
get_mut_entry_from_slices(minor_dim_, minor_indices, values, global_minor_indices) ==
    LET local_index == binary_search(minor_indices, global_minor_indices)
    IN  IF local_index.ok
        THEN IF local_index.index \in DOMAIN values
             THEN EntryNonZero(values[local_index.index])
             ELSE EntryPanic
        ELSE IF global_minor_indices < minor_dim_ THEN EntryZero
        ELSE EntryNone

\* lines 108-114
get_entry(self, major_index, minor_index) ==
    LET row_range == get_index_range(self, major_index)
        pattern == self.sparsity_pattern
    IN  IF ~row_range.some THEN EntryNone
        ELSE IF \/ ~slice_in_bounds(pattern.minor_indices, row_range.start, row_range.end)
                \/ ~slice_in_bounds(self.values, row_range.start, row_range.end)
        THEN EntryPanic
        ELSE get_entry_from_slices(pattern.minor_dim,
                 Slice(pattern.minor_indices, row_range.start, row_range.end),
                 Slice(self.values, row_range.start, row_range.end),
                 minor_index)

\* lines 118-126
get_entry_mut(self, major_index, minor_index) ==
    LET row_range == get_index_range(self, major_index)
        pattern == self.sparsity_pattern
    IN  IF ~row_range.some THEN EntryNone
        ELSE IF \/ ~slice_in_bounds(pattern.minor_indices, row_range.start, row_range.end)
                \/ ~slice_in_bounds(self.values, row_range.start, row_range.end)
        THEN EntryPanic
        ELSE get_mut_entry_from_slices(pattern.minor_dim,
                 Slice(pattern.minor_indices, row_range.start, row_range.end),
                 Slice(self.values, row_range.start, row_range.end),
                 minor_index)

ItemNone == [kind |-> "None", minor_dim |-> 0, minor_indices |-> NoVec, values |-> NoVec]
ItemPanic == [kind |-> "panic", minor_dim |-> 0, minor_indices |-> NoVec, values |-> NoVec]

\* lines 128-136
get_lane(self, index) ==
    LET range == get_index_range(self, index)
        pattern == self.sparsity_pattern
    IN  IF ~range.some THEN ItemNone
        ELSE IF \/ ~slice_in_bounds(pattern.minor_indices, range.start, range.end)
                \/ ~slice_in_bounds(self.values, range.start, range.end)
        THEN ItemPanic
        ELSE [kind |-> "Some", minor_dim |-> pattern.minor_dim,
              minor_indices |-> Slice(pattern.minor_indices, range.start, range.end),
              values |-> Slice(self.values, range.start, range.end)]

\* lines 370-376: CsLane::get_entry
lane_get_entry(lane, global_col_index) ==
    get_entry_from_slices(lane.minor_dim, lane.minor_indices, lane.values,
                          global_col_index)

\* the matrices: lanes of sorted, distinct indices below the minor
\* dimension, and values told apart by their position in the array
MaxMajorDim == 2
MaxMinorDim == 3

\* the k-th smallest member of a set of numbers
Sorted(S) == [k \in 0 .. Cardinality(S) - 1 |->
                CHOOSE x \in S : Cardinality({y \in S : y < x}) = k]

PatternOf(lanes, minor_dim_) ==
    LET n == Len0(lanes)
        offsets == [l \in 0 .. n |->
                      SumTo([k \in 0 .. n - 1 |-> Cardinality(lanes[k])], l)]
        lane_of(p) == CHOOSE l \in 0 .. n - 1 : offsets[l] <= p /\ p < offsets[l + 1]
    IN  [major_offsets |-> offsets,
         minor_indices |-> [p \in 0 .. offsets[n] - 1 |->
                              Sorted(lanes[lane_of(p)])[p - offsets[lane_of(p)]]],
         minor_dim |-> minor_dim_]

ValuesOf(pattern) == [p \in 0 .. nnz(pattern) - 1 |-> (p + 1) * Half]

NoEntry == [kind |-> "not called", value |-> 0]

InitEntry ==
    /\ NoSolver
    /\ \E major \in 0 .. MaxMajorDim, minor \in 0 .. MaxMinorDim :
         \E lanes \in [0 .. major - 1 -> SUBSET (0 .. minor - 1)],
            major_index \in 0 .. major + 1, minor_index \in 0 .. minor + 1 :
            LET pattern == PatternOf(lanes, minor)
            IN  args = [fn |-> "get_entry",
                        self |-> from_pattern_and_values(pattern, ValuesOf(pattern)),
                        major_index |-> major_index, minor_index |-> minor_index]
    /\ ret = [fn |-> "get_entry", entry |-> NoEntry, entry_mut |-> NoEntry,
              lane_entry |-> NoEntry]

CallGetEntry ==
    /\ args.fn = "get_entry" /\ ret.entry = NoEntry
    /\ ret' = [ret EXCEPT !.entry = get_entry(args.self, args.major_index,
                                              args.minor_index)]
    /\ UNCHANGED <<args, Solver>>

CallGetEntryMut ==
    /\ args.fn = "get_entry" /\ ret.entry_mut = NoEntry
    /\ ret' = [ret EXCEPT !.entry_mut = get_entry_mut(args.self, args.major_index,
                                                      args.minor_index)]
    /\ UNCHANGED <<args, Solver>>

\* get_lane(major_index) and, on the lane it gives, get_entry(minor_index)
CallLaneGetEntry ==
    /\ args.fn = "get_entry" /\ ret.lane_entry = NoEntry
    /\ LET lane == get_lane(args.self, args.major_index)
       IN  ret' = [ret EXCEPT !.lane_entry =
                      IF lane.kind = "Some" THEN lane_get_entry(lane, args.minor_index)
                      ELSE [kind |-> lane.kind, value |-> 0]]
    /\ UNCHANGED <<args, Solver>>

NextEntry == CallGetEntry \/ CallGetEntryMut \/ CallLaneGetEntry

SpecEntry == InitEntry /\ [][NextEntry]_vars

\* A slice held by a lane iterator is its content and, as the pointer, the
\* position of its first entry in the array of the values.
\* lines 262-270 and 305-313: CsLaneIter::new, CsLaneIterMut::new
lane_iter_new(pattern, values) ==
    [current_lane_idx |-> 0, pattern |-> pattern,
     remaining_values |-> [from |-> 0, data |-> values]]

\* lane_iter and lane_iter_mut (lines 151-158)
lane_iter(self) == lane_iter_new(self.sparsity_pattern, self.values)

Yield(it, lane, from) == [it |-> it, lane |-> lane, from |-> from]

\* a next() that hands out the head of the remaining values without
\* advancing past it
lane_next_not_advancing(it) ==
    LET lane == pattern_get_lane(it.pattern, it.current_lane_idx)
        count == Len0(lane.minor_indices)
        remaining == it.remaining_values
    IN  IF ~lane.some THEN Yield(it, ItemNone, 0)
        ELSE IF ~slice_in_bounds(remaining.data, 0, count) THEN Yield(it, ItemPanic, 0)
        ELSE Yield([it EXCEPT !.current_lane_idx = @ + 1],
                   [kind |-> "Some", minor_dim |-> it.pattern.minor_dim,
                    minor_indices |-> lane.minor_indices,
                    values |-> Slice(remaining.data, 0, count)],
                   remaining.from)

\* lines 278-295: CsLaneIter::next
lane_next(it) ==
    LET lane == pattern_get_lane(it.pattern, it.current_lane_idx)
        count == Len0(lane.minor_indices)
        remaining == it.remaining_values
    IN  IF ~lane.some THEN Yield(it, ItemNone, 0)
        ELSE IF ~slice_in_bounds(remaining.data, 0, count) THEN Yield(it, ItemPanic, 0)
        ELSE Yield([it EXCEPT !.current_lane_idx = @ + 1,
                              !.remaining_values =
                                  [from |-> remaining.from + count,
                                   data |-> Slice(remaining.data, count,
                                                  Len0(remaining.data))]],
                   [kind |-> "Some", minor_dim |-> it.pattern.minor_dim,
                    minor_indices |-> lane.minor_indices,
                    values |-> Slice(remaining.data, 0, count)],
                   remaining.from)

\* lines 321-341: CsLaneIterMut::next; split_at_mut(count) panics when
\* count is above the length
lane_next_mut(it) ==
    LET lane == pattern_get_lane(it.pattern, it.current_lane_idx)
        count == Len0(lane.minor_indices)
        remaining == it.remaining_values
    IN  IF ~lane.some THEN Yield(it, ItemNone, 0)
        ELSE IF count > Len0(remaining.data) THEN Yield(it, ItemPanic, 0)
        ELSE Yield([it EXCEPT !.current_lane_idx = @ + 1,
                              !.remaining_values =
                                  [from |-> remaining.from + count,
                                   data |-> Slice(remaining.data, count,
                                                  Len0(remaining.data))]],
                   [kind |-> "Some", minor_dim |-> it.pattern.minor_dim,
                    minor_indices |-> lane.minor_indices,
                    values |-> Slice(remaining.data, 0, count)],
                   remaining.from)

\* the calls of next() are counted up to MaxExtraNext past the last lane
MaxExtraNext == 2

InitLanes ==
    /\ NoSolver
    /\ \E major \in 0 .. MaxMajorDim, minor \in 0 .. MaxMinorDim :
         \E lanes \in [0 .. major - 1 -> SUBSET (0 .. minor - 1)] :
            LET pattern == PatternOf(lanes, minor)
            IN  args = [fn |-> "lane_iter",
                        self |-> from_pattern_and_values(pattern, ValuesOf(pattern))]
    /\ ret = [fn |-> "lane_iter",
              iter |-> lane_iter(args.self), yielded |-> <<>>,
              iter_mut |-> lane_iter(args.self), yielded_mut |-> <<>>]

LaneIterNext ==
    /\ args.fn = "lane_iter"
    /\ Len(ret.yielded) < major_dim(args.self.sparsity_pattern) + MaxExtraNext
    /\ LET y == lane_next(ret.iter)
       IN  ret' = [ret EXCEPT !.iter = y.it,
                              !.yielded = Append(@, [lane |-> y.lane, from |-> y.from])]
    /\ UNCHANGED <<args, Solver>>

LaneIterMutNext ==
    /\ args.fn = "lane_iter"
    /\ Len(ret.yielded_mut) < major_dim(args.self.sparsity_pattern) + MaxExtraNext
    /\ LET y == lane_next_mut(ret.iter_mut)
       IN  ret' = [ret EXCEPT !.iter_mut = y.it,
                              !.yielded_mut = Append(@, [lane |-> y.lane, from |-> y.from])]
    /\ UNCHANGED <<args, Solver>>

NextLanes == LaneIterNext \/ LaneIterMutNext

SpecLanes == InitLanes /\ [][NextLanes]_vars

(***************************************************************************)
(* The claims.                                                             *)
(***************************************************************************)

\* C1: try_new returns None if and only if max_niter is nonzero and the
\* loop has not reached start == end after max_niter iterations: a run that
\* reaches start == end in at most max_niter iterations, exactly max_niter
\* included, returns Some, and with max_niter = 0 None is never returned.
C1_NoneOnlyPastTheBudget ==
    /\ run.pc = "none" => (max_niter # 0 /\ run.start # run.end)
    /\ run.pc = "some" => (max_niter = 0 \/ run.niter <= max_niter)

\* C2: the solver fails only on a non-square matrix: a run that panicked was
\* handed a non-square matrix, and a non-square matrix is refused by the
\* assertion, before any scaling or tridiagonalization.
C2_FailsOnlyOnNonSquare ==
    /\ run.pc = "panic" => ~is_square(m)
    /\ (~is_square(m) /\ run.pc # "call") =>
          (run.pc = "panic" /\ run.m_amax = 0 /\ run.diag = NoVec)

\* the test of the delimiter on the arguments of the call: off_diag[k] is
\* above eps * (|diag[k]| + |diag[k+1]|)
Exceeds(k) ==
    Abs(args.off_diag[k])
        > FMul(args.eps, Abs(args.diag[k]) + Abs(args.diag[k + 1]))

\* C3: delimit_subproblem returns (0, 0) or (start, n) with start < n <= end
\* where every off_diag[i], start <= i < n, is above the threshold, every
\* off_diag[i], n <= i < end, is at or below it, and start = 0 or
\* off_diag[start-1] is zero or at or below it; start = n only as (0, 0), which
\* is returned exactly when every off_diag[i], i < end, is at or below it.
C3_DelimitedBlock ==
    ret.fn = "delimit_subproblem" =>
        /\ \/ ret.start = 0 /\ ret.end = 0
           \/ /\ ret.start < ret.end /\ ret.end <= args.end
              /\ \A i \in ret.start .. ret.end - 1 : Exceeds(i)
              /\ \A i \in ret.end .. args.end - 1 : ~Exceeds(i)
              /\ \/ ret.start = 0
                 \/ args.off_diag[ret.start - 1] = 0
                 \/ ~Exceeds(ret.start - 1)
        /\ ret.start = ret.end => (ret.start = 0 /\ ret.end = 0)
        /\ (ret.start = 0 /\ ret.end = 0) <=> (\A i \in 0 .. args.end - 1 : ~Exceeds(i))

\* a block with entries before it, inside it and after it
C3_Witness ==
    /\ ret.fn = "delimit_subproblem"
    /\ 0 < ret.start /\ ret.start < ret.end /\ ret.end < args.end

\* C4 as stated: after delimit_subproblem every entry the scan found at or
\* below the threshold is zero: the trailing ones it skipped while locating
\* the block's end and the one before the block's start.
C4_EveryNegligibleEntryZeroed ==
    ret.fn = "delimit_subproblem" =>
        /\ \A i \in ret.end .. args.end - 1 : ret.off_diag[i] = 0
        /\ (ret.end > 0 /\ ret.start > 0) => ret.off_diag[ret.start - 1] = 0

\* C4 as amended: delimit_subproblem writes one entry at most: when it
\* returns a block that starts after row 0, the entry before the block's
\* start is zero; every other entry, the trailing ones at or below the
\* threshold included, is what it was.
C4_OnlyTheEntryBeforeTheBlockZeroed ==
    ret.fn = "delimit_subproblem" =>
        \A k \in DOMAIN args.off_diag :
            ret.off_diag[k] = IF ret.end > 0 /\ k = ret.start - 1 THEN 0
                              ELSE args.off_diag[k]

\* the entry before the block zeroed, a trailing one at or below the
\* threshold left as it was
C4_Witness ==
    /\ ret.fn = "delimit_subproblem"
    /\ ret.end > 0 /\ ret.start > 0
    /\ args.off_diag[ret.start - 1] # 0 /\ ret.off_diag[ret.start - 1] = 0
    /\ \E k \in ret.end .. args.end - 1 : ~Exceeds(k) /\ ret.off_diag[k] # 0

\* the characteristic polynomial of [[tmm, tmn], [tmn, tnn]] at x, in
\* squared grid units
CharPoly(x) == (args.tmm - x) * (args.tnn - x) - args.tmn * args.tmn

\* C5: wilkinson_shift(tmm, tnn, tmn) is an eigenvalue of
\* [[tmm, tmn], [tmn, tnn]], to within ShiftTol grid units (the
\* characteristic polynomial has a root that close to it), and the one
\* closest to tnn (the other one, the trace minus it, is no closer);
\* it is tnn when tmn = 0.
C5_ShiftIsTheClosestEigenvalue ==
    ret.fn = "wilkinson_shift" =>
        /\ \E x \in ret.shift - ShiftTol .. ret.shift + ShiftTol - 1 :
              \/ CharPoly(x) <= 0 /\ CharPoly(x + 1) >= 0
              \/ CharPoly(x) >= 0 /\ CharPoly(x + 1) <= 0
        /\ Abs(ret.shift - args.tnn) <= Abs(args.tmm - ret.shift) + 2 * ShiftTol
        /\ args.tmn = 0 => ret.shift = args.tnn

\* zero trace, the shift computed by the division
C5_Witness ==
    /\ ret.fn = "wilkinson_shift"
    /\ args.tmn # 0 /\ args.tmm = -args.tnn /\ args.tnn < 0
    /\ ret.shift < args.tnn

\* C6: wilkinson_shift never divides by zero: when it divides
\* (tmn * tmn # 0) the denominator d + sign(d) * sqrt(d*d + tmn*tmn) is not
\* zero, d = 0 included.
C6_DenominatorNotZero ==
    (ret.fn = "wilkinson_shift" /\ ret.divides) => ret.denominator # 0

\* equal diagonal entries: d = 0
C6_Witness ==
    /\ ret.fn = "wilkinson_shift" /\ ret.divides
    /\ args.tmm = args.tnn

\* C7: from the same tridiagonal the run without eigenvectors goes through
\* the states (start, end, niter, diag, off_diag) of the run with them, step
\* by step; the flag decides Q alone.
C7_ValuesAsWithVectors ==
    /\ vals.pc = run.pc
    /\ run.pc # "idle" =>
        /\ vals.start = run.start /\ vals.end = run.end
        /\ vals.niter = run.niter
        /\ vals.i = run.i /\ vals.v = run.v
        /\ vals.diag = run.diag /\ vals.off_diag = run.off_diag
        /\ ~vals.q.some
        /\ run.pc \notin {"call", "panic"} => run.q.some

\* both returned, after sweeps and a 2x2 step that rotated Q
C7_Witness ==
    /\ run.pc = "some" /\ vals.pc = "some"
    /\ run.dim = 3 /\ run.niter >= 3
    /\ run.q.mat # Identity(3)

\* C8: a 1x1 matrix [v] gives the eigenvalue v and the eigenvector [1]:
\* Some is returned before the loop, whatever v (0 included: nothing is
\* divided by the zero scale), eps and max_niter (1 included).
C8_OneByOne ==
    (m.nrows = 1 /\ m.ncols = 1 /\ run.pc # "call") =>
        /\ run.pc = "some" /\ run.niter = 0
        /\ run.diag = m.diag
        /\ run.q = [some |-> TRUE, mat |-> Identity(1)]
        /\ vals.pc = "some" /\ vals.diag = m.diag

\* [0], a budget of one iteration
C8_Witness ==
    /\ m.nrows = 1 /\ m.ncols = 1 /\ m.diag[0] = 0 /\ max_niter = 1
    /\ run.pc = "some"

\* the entry (i, j) of the matrix handed to the solver
Entry(mm, i, j) ==
    IF i = j THEN mm.diag[i]
    ELSE IF i = j + 1 THEN mm.off[j]
    ELSE IF j = i + 1 THEN mm.off[i]
    ELSE 0

\* a tolerance that scales with the dimension and the largest entry, over
\* what the rounding to the grid costs
ReconstructTol(mm) == (mm.nrows * camax(mm)) \div 16 + RoundTol

\* C9: when the solver returns, recompose() of what it returned is the matrix
\* it was handed, up to the tolerance.
C9_RecomposeGivesTheMatrixBack ==
    run.pc = "some" =>
        LET out == recompose([eigenvectors |-> run.q.mat, eigenvalues |-> run.diag])
        IN  \A i, j \in 0 .. m.nrows - 1 :
                Abs(out[i][j] - Entry(m, i, j)) <= ReconstructTol(m)

\* C10: recompose() of any pair of a matrix and a vector is the matrix whose
\* entry (i, j) is the sum over k of
\* eigenvectors[i][k] * eigenvalues[k] * eigenvectors[j][k], and it leaves
\* the pair as it was.
C10_RecomposeFormula ==
    ret.fn = "recompose" =>
        LET e == args.self.eigenvectors
            l == args.self.eigenvalues
        IN  /\ ret.self = args.self
            /\ \A i, j \in DOMAIN e :
                  ret.out[i][j] =
                      SumTo([k \in DOMAIN e |-> FMul(FMul(e[i][k], l[k]), e[j][k])],
                            Cardinality(DOMAIN e))

\* a matrix that is not symmetric, an entry of the result off the diagonal
C10_Witness ==
    /\ ret.fn = "recompose"
    /\ Cardinality(DOMAIN args.self.eigenvectors) = 2
    /\ args.self.eigenvectors[0][1] # args.self.eigenvectors[1][0]
    /\ ret.out[0][1] # 0 /\ ret.out[0][1] # ret.out[0][0]

\* the sum of v[u] * k[i - u] over the u with 0 <= u < v.len() and
\* 0 <= i - u < k.len()
FullSum(v, k, i) ==
    SumTo([u \in 0 .. Len0(v) - 1 |->
              IF 0 <= i - u /\ i - u < Len0(k) THEN FMul(v[u], k[i - u]) ELSE 0],
          Len0(v))

\* C11: for v.len() >= k.len() > 0 convolve_full returns, without an index
\* out of bounds and without an unsigned underflow, the vector of length
\* v.len() + k.len() - 1 whose entry i is the sum of v[u] * k[i - u] over the
\* u with 0 <= u < v.len() and 0 <= i - u < k.len(); for k.len() = 0 or
\* k.len() > v.len() it panics.
C11_ConvolveFullIsTheConvolution ==
    (args.fn = "convolve" /\ ret.full # NoConv) =>
        LET vec == Len0(args.self)
            ker == Len0(args.kernel)
        IN  IF ker = 0 \/ ker > vec
            THEN ret.full.panic
            ELSE /\ ~ret.full.panic
                 /\ DOMAIN ret.full.conv = 0 .. vec + ker - 2
                 /\ \A i \in 0 .. vec + ker - 2 :
                        ret.full.conv[i] = FullSum(args.self, args.kernel, i)

\* a kernel of two entries at least on a longer vector: the passes past
\* the vector's length and the filtered loop have run
C11_Witness ==
    /\ args.fn = "convolve" /\ ret.full # NoConv /\ ~ret.full.panic
    /\ Len0(args.kernel) >= 2 /\ Len0(args.self) > Len0(args.kernel)
    /\ args.kernel[0] # args.kernel[1]

\* C12 as stated: for v.len() >= k.len() > 0 convolve_same returns a vector
\* of v's length centered in the full output: its entry i is the entry
\* i + floor((k.len() - 1) / 2) of convolve_full(v, k), for every kernel
\* length from 1 to v.len().
C12_SameIsTheCentreOfFull ==
    (args.fn = "convolve" /\ ret.full # NoConv /\ ret.same # NoConv
        /\ ~ret.full.panic) =>
        /\ ~ret.same.panic
        /\ DOMAIN ret.same.conv = DOMAIN args.self
        /\ \A i \in DOMAIN args.self :
              ret.same.conv[i] = ret.full.conv[i + (Len0(args.kernel) - 1) \div 2]

\* the zero-padded input of mat_convolve_full
Padded(mat, r, c) ==
    IF 0 <= r /\ r < mat.nrows /\ 0 <= c /\ c < mat.ncols THEN mat.data[r][c] ELSE 0

\* the sum over the kernel's positions of the kernel's value times the
\* padded input at the offset of the position from the kernel's centre
MatSum(mat, kernel, i, j) ==
    SumTo([a \in 0 .. kernel.nrows - 1 |->
              SumTo([b \in 0 .. kernel.ncols - 1 |->
                        FMul(kernel.data[a][b],
                             Padded(mat, i + a - kernel.nrows \div 2,
                                         j + b - kernel.ncols \div 2))],
                    kernel.ncols)],
          kernel.nrows)

\* C13 as stated: for 0 < kernel rows <= matrix rows and 0 < kernel cols <=
\* matrix cols, non-square matrices and kernels included, mat_convolve_full
\* does not panic and returns a matrix of the input's shape whose entry
\* (i, j) is the sum over the kernel's positions of the kernel's value times
\* the zero-padded input at the corresponding offset.
C13_MatConvolveFullIsTheConvolution ==
    (/\ args.fn = "mat_convolve" /\ ret.mat # NoConv
     /\ 0 < args.kernel.nrows /\ args.kernel.nrows <= args.self.nrows
     /\ 0 < args.kernel.ncols /\ args.kernel.ncols <= args.self.ncols) =>
        /\ ~ret.mat.panic
        /\ ret.mat.conv.nrows = args.self.nrows
        /\ ret.mat.conv.ncols = args.self.ncols
        /\ \A i \in 0 .. args.self.nrows - 1 : \A j \in 0 .. args.self.ncols - 1 :
              ret.mat.conv.data[i][j] = MatSum(args.self, args.kernel, i, j)

\* the lane major of the matrix of the call, as the set of its stored
\* positions in the arrays
Stored(major) ==
    LET offsets == args.self.sparsity_pattern.major_offsets
    IN  offsets[major] .. offsets[major + 1] - 1

\* what C14 states for the indices of the call
Expected ==
    LET pattern == args.self.sparsity_pattern
    IN  IF args.major_index >= major_dim(pattern) THEN EntryNone
        ELSE IF \E p \in Stored(args.major_index) :
                    pattern.minor_indices[p] = args.minor_index
        THEN EntryNonZero(args.self.values[
                 CHOOSE p \in Stored(args.major_index) :
                     pattern.minor_indices[p] = args.minor_index])
        ELSE IF args.minor_index < pattern.minor_dim THEN EntryZero
        ELSE EntryNone

\* C14: on lanes of sorted, distinct minor indices get_entry(major, minor)
\* is None when major >= major_dim; otherwise NonZero(v) when minor is stored
\* in the lane, v being the value at the position of the index; otherwise
\* Zero when minor < minor_dim; otherwise None.  get_entry_mut and
\* CsLane::get_entry give the same outcome for the same indices.
C14_EntryLookup ==
    args.fn = "get_entry" =>
        /\ ret.entry # NoEntry => ret.entry = Expected
        /\ ret.entry_mut # NoEntry => ret.entry_mut = Expected
        /\ ret.lane_entry # NoEntry => ret.lane_entry = Expected

\* the three lookups found the second of several stored entries of a lane
\* that is not the first
C14_Witness ==
    /\ args.fn = "get_entry"
    /\ ret.entry.kind = "NonZero" /\ ret.entry_mut.kind = "NonZero"
    /\ ret.lane_entry.kind = "NonZero"
    /\ args.major_index > 0
    /\ Stored(args.major_index - 1) # {}
    /\ Cardinality(Stored(args.major_index)) >= 2
    /\ ret.entry.value = args.self.values[
           args.self.sparsity_pattern.major_offsets[args.major_index] + 1]

\* what C20 states of the lanes a lane iterator has yielded so far and of
\* the values it has left
YieldsTheLanes(yielded, it) ==
    LET self == args.self
        dim == major_dim(self.sparsity_pattern)
    IN  /\ \A n \in 1 .. Len(yielded) :
              IF n <= dim
              THEN /\ yielded[n].lane.kind = "Some"
                   /\ yielded[n].lane = get_lane(self, n - 1)
                   /\ yielded[n].from =
                          IF n = 1 THEN 0
                          ELSE yielded[n - 1].from + Len0(yielded[n - 1].lane.values)
              ELSE yielded[n].lane = ItemNone
        /\ Len(yielded) >= dim =>
              /\ it.remaining_values.from = Len0(self.values)
              /\ it.remaining_values.data = NoVec

\* C20: for a CsMatrix whose values are as many as the pattern's nnz,
\* lane_iter() yields exactly major_dim lanes in increasing order and then
\* None on every further call; the i-th lane is get_lane(i); the slices of
\* the values are consecutive, disjoint and cover the whole array; slicing
\* the remaining values never goes out of bounds; lane_iter_mut yields the
\* same partition.
C20_LaneIterYieldsTheLanes ==
    args.fn = "lane_iter" =>
        /\ YieldsTheLanes(ret.yielded, ret.iter)
        /\ YieldsTheLanes(ret.yielded_mut, ret.iter_mut)
        /\ \A n \in 1 .. Min(Len(ret.yielded), Len(ret.yielded_mut)) :
              ret.yielded[n] = ret.yielded_mut[n]

\* both iterators went through two lanes that store entries and then
\* answered None twice
C20_Witness ==
    /\ args.fn = "lane_iter"
    /\ major_dim(args.self.sparsity_pattern) = 2
    /\ Len(ret.yielded) = 4 /\ Len(ret.yielded_mut) = 4
    /\ Len0(ret.yielded[1].lane.values) >= 1
    /\ Len0(ret.yielded[2].lane.values) >= 2
    /\ ret.yielded[4].lane = ItemNone

\* the sweep stands at a row where cancel_y gives no rotation
BreaksAtRow == run.pc = "sweep" /\ run.i < run.end /\ ~cancel_y(run.v).some

\* C15 as stated: when cancel_y yields no rotation at row i of a sweep on
\* the block [start, end], the sweep stops there without writing diag,
\* off_diag or Q for the rows i..end-1 and without an error, and the
\* delimiter pass that follows returns a block strictly smaller than
\* [start, end]: the same sweep is not repeated on an unchanged state.
C15_BreakIsADecoupling ==
    [][BreaksAtRow =>
          /\ run'.pc = "redelimit"
          /\ run'.diag = run.diag /\ run'.off_diag = run.off_diag /\ run'.q = run.q
          /\ LET after == redelimit(run', eps, max_niter)
             IN  after.end - after.start < run.end - run.start]_vars

\* the loop stands before the 2x2 step
AtTwoByTwo == run.pc = "loop" /\ run.end # run.start /\ subdim(run) = 2

\* the eigenvalues of the block [start, start+1] of r
BlockEigenvalues(r) ==
    eigenvalues(r.diag[r.start], r.off_diag[r.start],
                r.off_diag[r.start], r.diag[r.start + 1])

\* the Givens construction of the 2x2 step on the block of r
BlockRotation(r) ==
    try_new(BlockEigenvalues(r).x - r.diag[r.start + 1], r.off_diag[r.start], eps)

\* C16: the 2x2 step overwrites diag[start] and diag[start+1] with the two
\* eigenvalues of the block and decreases end by exactly one, with and
\* without eigenvectors and whether or not the Givens construction from
\* (eigvals.x - diag[start+1], off_diag[start]) succeeds; with eigenvectors
\* and no rotation Q is unchanged, and with a rotation only the columns
\* start and start+1 of Q change.
C16_TwoByTwoStep ==
    [][AtTwoByTwo =>
          LET start == run.start
              eigvals == BlockEigenvalues(run)
              rot == BlockRotation(run)
          IN  /\ run'.pc = "redelimit"
              /\ run'.diag = [run.diag EXCEPT ![start] = eigvals.x,
                                              ![start + 1] = eigvals.y]
              /\ run'.end = run.end - 1
              /\ run'.off_diag = run.off_diag
              /\ vals'.diag = run'.diag /\ vals'.end = run'.end
              /\ ~vals'.q.some
              /\ ~rot.some => run'.q = run.q
              /\ rot.some =>
                    \A k \in 0 .. run.dim - 1 :
                        \A c \in (0 .. run.dim - 1) \ {start, start + 1} :
                            run'.q.mat[k][c] = run.q.mat[k][c]]_vars

\* the first block of the call is a 2x2 block of a larger matrix, the Givens
\* construction on it gave none, and the step has written the eigenvalues,
\* changing the diagonal, and left Q as it was
C16_Witness ==
    LET r0 == enter(Called(TRUE), m, eps)
    IN  /\ run.pc = "redelimit" /\ run.niter = 0 /\ run.dim > 2
        /\ r0.pc = "loop" /\ subdim(r0) = 2
        /\ ~BlockRotation(r0).some
        /\ run.end = r0.end - 1
        /\ run.q = r0.q
        /\ run.diag # r0.diag
        /\ run.diag[r0.start] = BlockEigenvalues(r0).x

\* the indices at which two vectors of the same length differ
Changed(old, new) == {k \in DOMAIN old : new[k] # old[k]}

\* the columns in which two matrices of the same shape differ
ChangedColumns(old, new) ==
    {c \in DOMAIN old : \E k \in DOMAIN old : new[k][c] # old[k][c]}

\* C17: one iteration of the outer loop on the block [start, end] writes
\* only diag[start..=end], off_diag[start..=end-1] and the columns
\* start..=end of Q; the sweep step at row i writes diag[i], diag[i+1],
\* off_diag[i], off_diag[i-1] only when i > start, off_diag[i+1] only when
\* i # end-1, and the columns i and i+1 of Q; the delimiter call that follows
\* changes no diag entry and at most one off_diag entry, which it sets to
\* zero.
C17_WritesStayInTheBlock ==
    [][/\ (run.pc \in {"loop", "sweep"} /\ run.end # run.start) =>
              /\ Changed(run.diag, run'.diag) \subseteq run.start .. run.end
              /\ Changed(run.off_diag, run'.off_diag) \subseteq run.start .. run.end - 1
              /\ ChangedColumns(run.q.mat, run'.q.mat) \subseteq run.start .. run.end
              /\ Changed(vals.diag, vals'.diag) \subseteq vals.start .. vals.end
              /\ Changed(vals.off_diag, vals'.off_diag) \subseteq vals.start .. vals.end - 1
       /\ (run.pc = "sweep" /\ run.i < run.end /\ cancel_y(run.v).some) =>
              /\ Changed(run.diag, run'.diag) \subseteq {run.i, run.i + 1}
              /\ Changed(run.off_diag, run'.off_diag) \subseteq
                    {run.i} \cup (IF run.i > run.start THEN {run.i - 1} ELSE {})
                            \cup (IF run.i # run.end - 1 THEN {run.i + 1} ELSE {})
              /\ ChangedColumns(run.q.mat, run'.q.mat) \subseteq {run.i, run.i + 1}
       /\ run.pc = "redelimit" =>
              /\ run'.diag = run.diag /\ run'.q = run.q
              /\ Cardinality(Changed(run.off_diag, run'.off_diag)) <= 1
              /\ \A k \in Changed(run.off_diag, run'.off_diag) : run'.off_diag[k] = 0
      ]_vars

\* a 2x2 step has acted, after an earlier iteration that deflated the last
\* row, on a block that stops short of that row, and Q has been rotated
C17_Witness ==
    /\ run.pc = "redelimit" /\ run.niter >= 1
    /\ run.end = run.start
    /\ run.end + 1 < run.dim - 1
    /\ run.q.mat # Identity(run.dim)

\* no entry of the vector is the outcome of a division by zero
Finite(vec) == \A k \in DOMAIN vec : Abs(vec[k]) < Infinity

\* the diagonal of the call r scaled by the largest absolute entry of m
ScaledBack(r) == [k \in DOMAIN r.diag |-> FMul(r.diag[k], camax(m))]

\* C18: the matrix is divided by its largest absolute entry m_amax only when
\* m_amax is not zero, so nothing is divided by zero; on every successful
\* return, the early one for dim = 1 and the exit of the loop, the diagonal
\* has been multiplied by the same m_amax exactly once; the eigenvalues of
\* the zero matrix are all zero; the return of None scales nothing and
\* produces no eigenvalues.
C18_ScaledBackOnce ==
    /\ [](/\ Finite(run.diag) /\ Finite(run.off_diag)
          /\ Finite(vals.diag) /\ Finite(vals.off_diag)
          /\ run.pc \notin {"call", "panic"} => run.m_amax = camax(m)
          /\ (run.pc = "some" /\ camax(m) = 0) =>
                \A k \in DOMAIN run.diag : run.diag[k] = 0)
    /\ [][/\ (run.pc = "call" /\ is_square(m) /\ camax(m) # 0 /\ run'.pc = "loop") =>
                \A k \in DOMAIN m.diag : run'.diag[k] = FDiv(m.diag[k], camax(m))
          /\ (run.pc = "call" /\ run'.pc = "some") =>
                /\ m.nrows = 1
                /\ run'.diag[0] =
                      IF camax(m) = 0 THEN 0
                      ELSE FMul(FDiv(m.diag[0], camax(m)), camax(m))
          /\ (run.pc = "loop" /\ run'.pc = "some") => run'.diag = ScaledBack(run)
          /\ (vals.pc = "loop" /\ vals'.pc = "some") => vals'.diag = ScaledBack(vals)
          /\ (run.pc = "loop" /\ run'.pc # "some") => run'.m_amax = run.m_amax
          /\ run'.pc = "none" => (run.pc = "redelimit" /\ run'.diag = run.diag)
          /\ run.pc \in {"some", "none"} => run' = run
         ]_vars

\* a matrix of three rows whose largest entry is one half has been through
\* the loop and its eigenvalues, not all zero, have been scaled back
C18_Witness ==
    /\ run.pc = "some" /\ run.dim = 3 /\ run.niter >= 1
    /\ run.m_amax = Half
    /\ \E k \in DOMAIN run.diag : run.diag[k] # 0
    /\ \E k \in DOMAIN m.off : m.off[k] = Half

\* the loop of the call r stands at the head of an iteration
AtIteration(r) == r.pc = "loop" /\ r.end # r.start

\* what C19 states of the call r where it stands
LoopInvariant(r) ==
    /\ AtIteration(r) =>
          /\ 0 <= r.start /\ r.start < r.end /\ r.end <= r.dim - 1
          /\ \A i \in r.start .. r.end - 1 : r.off_diag[i] # 0
          /\ {r.start, r.start + 1, r.end - 1, r.end} \subseteq DOMAIN r.diag
          /\ {r.start, r.end - 1} \subseteq DOMAIN r.off_diag
    /\ (r.pc = "sweep" /\ r.i < r.end) =>
          /\ r.start <= r.i
          /\ {r.i, r.i + 1} \subseteq DOMAIN r.diag
          /\ r.i \in DOMAIN r.off_diag
          /\ r.i > r.start => (r.i - 1) \in DOMAIN r.off_diag
          /\ r.i # r.end - 1 => (r.i + 1) \in DOMAIN r.off_diag
          /\ r.q.some => {r.i, r.i + 1} \subseteq DOMAIN r.q.mat

\* C19: for dim >= 2, at the head of every iteration of the outer loop
\* 0 <= start < end <= dim - 1 and every off_diag[i], start <= i < end, is
\* not zero; end never increases from one iteration to the next, and it
\* decreases in every iteration whose block has size 2 or whose test after
\* the sweep finds off_diag[end-1] negligible; so every access to diag[i],
\* diag[i+1], off_diag[i-1], off_diag[i], off_diag[i+1] and to the columns
\* i, i+1 of Q is in bounds.  (eps is a tolerance: positive.)
C19_LoopInvariant ==
    /\ [](LoopInvariant(run) /\ LoopInvariant(vals))
    /\ [][/\ run.pc \in {"loop", "sweep", "redelimit"} => run'.end <= run.end
          /\ (AtIteration(run) /\ subdim(run) = 2) => run'.end < run.end
          /\ (run.pc = "sweep" /\ run'.pc = "redelimit"
                 /\ negligible(run.diag, run.off_diag, run.end - 1, eps)) =>
                run'.end < run.end
          /\ run.pc = "sweep" => run'.start = run.start
         ]_vars

\* a sweep deflated the last row of a matrix of three rows and the loop
\* stands at the head of the iteration on the block that is left
C19_Witness ==
    /\ AtIteration(run) /\ run.niter >= 1
    /\ run.dim = 3 /\ run.end = 1 /\ run.start = 0
    /\ run.off_diag[1] # 0

====
